---- MODULE Spec2Model ----
(***************************************************************************)
(* Model of the wwebjs-api service: the session registry, the channel      *)
(* operation handlers (channelController), the webhook dispatcher          *)
(* (utils.triggerWebhook), the event-type filter (utils.isEventEnabled,    *)
(* config.disabledCallbacks), the startup sequence (server.js) with the    *)
(* recovery of persisted sessions, the message history (Chat.fetchMessages)*)
(* and the polling wait (utils.waitForNestedObject).                       *)
(***************************************************************************)
EXTENDS Integers, Sequences, FiniteSets, TLC

\* ------------------------------------------------------------------ bounds
MaxReq == 2        \* HTTP requests in one behaviour
MaxCreate == 3     \* calls of the registry's create in one behaviour
MaxEvents == 3     \* events handed to triggerWebhook in one behaviour
MaxEnvLen == 3     \* characters of DISABLED_CALLBACKS
MaxTypeLen == 2    \* characters of an event type
MaxRestart == 1    \* restarts of the process in one behaviour
MaxUpgrade == 2    \* upgrade requests in one behaviour
MaxT == 2          \* timestamps of messages
MaxMsgs == 2       \* messages in the chat store, and in one chunk of earlier messages
MaxChunks == 1     \* non-empty chunks loadEarlierMsgs hands back
MaxLimit == 3      \* searchOptions.limit
MaxWait == 2       \* maxWaitTime, in clock ticks
MaxInterval == 2   \* interval, in clock ticks
PathLen == 2       \* keys of nestedPath
MaxStoreChanges == 1  \* changes of the chat store while fetchMessages is under way
MaxPollsPerTick == 2  \* runs of checkObject at one reading of Date.now()

\* --------------------------------------------------------------- constants
Identity == {"A", "B"}

SessionStates == {"STARTING", "AUTHENTICATING", "CONNECTED", "DISCONNECTED", "FAILED"}

\* what Map.get answers for an absent key
NoSession == "undefined"

\* error messages the Driver (or the network) may raise
DriverErrors == {"Evaluation failed", "Protocol error"}

\* the TypeError raised by `client.getChatById` when client is undefined
TypeErrNoClient == "Cannot read properties of undefined (reading 'getChatById')"

ContentTypes == {"string", "MessageMediaFromURL", "MessageMedia", "other"}

\* outcomes of the promise returned by client.getChatById
GetChatOutcomes ==
  {[kind |-> "resolve", val |-> c] : c \in {"undefined", "chat", "channel"}}
    \cup {[kind |-> "reject", val |-> m] : m \in DriverErrors}

\* outcomes of the promises returned by chat.sendMessage and MessageMedia.fromUrl
CallOutcomes ==
  {[kind |-> "resolve", val |-> "ok"]}
    \cup {[kind |-> "reject", val |-> m] : m \in DriverErrors}

VARIABLES
  sessions,    \* the registry: identity -> state of its Session, or NoSession
  drivers,     \* identity -> number of live Driver instances held for it
  creates,     \* number of create calls made
  lastCreate,  \* the last create call and its result
  store,       \* identities with a Session Store record
  req,         \* the HTTP requests: position of each handler and its locals
  driverLog,   \* Driver operations in the order the Driver received them
  concurrency, \* how many requests the clients keep in flight
  enableWebHook,  \* config.enableWebHook
  globalApiKey,   \* config.globalApiKey
  calls,       \* the calls of triggerWebhook, in call order, with their arguments
  returned,    \* per call: what the call gave back to its caller
  posts,       \* the HTTP requests handed to axios.post, in the order initiated
  logs,        \* what the promise callbacks logged
  unhandled,   \* posts whose rejection no callback caught
  envDisabledCallbacks,  \* process.env.DISABLED_CALLBACKS
  disabledCallbacks,     \* config.disabledCallbacks
  routed,      \* the last event routed: its type and which sinks received it
  baseWebhookURL,     \* config.baseWebhookURL
  envEnableWebSocket, \* process.env.ENABLE_WEBSOCKET
  enableWebSocket,    \* config.enableWebSocket
  autoStartSessions,  \* config.autoStartSessions
  recoverSessions,    \* config.recoverSessions
  pc,                 \* position of the main module of server.js
  exitCode,           \* the code given to process.exit, if it was called
  listening,          \* the callback of app.listen has run
  restoreCalls,       \* calls of restoreSessions made by this process
  upgradeListeners,   \* listeners installed for the server's 'upgrade' event
  upgradeRequests,    \* upgrade requests the server received
  handleUpgradeCalls, \* calls of handleUpgrade
  restarts,      \* restarts of the process
  snapshot,      \* the identities the recovery run found in the store
  pending,       \* identities of the run not taken up yet
  attempted,     \* identities of the run taken up
  removed,       \* identity -> how a caller removed its last Session ("stop",
                 \* "terminate"), "restored" once recovery has re-created it after a stop
  failureEvents, \* failure Events emitted by this process
  chatMsgs,      \* chat.msgs.getModelsArray(), in the order the store holds them
  earlierMsgs,   \* what the calls of loadEarlierMsgs are going to hand back
  searchOptions, \* the searchOptions given to fetchMessages
  fetched,       \* the messages fetchMessages returned
  fetchPc,       \* the await fetchMessages is suspended at
  pageMsgs,      \* the local msgs of the function evaluated in the page
  storeChanges,  \* changes of the chat store made while the call was under way
  now,           \* Date.now() - start
  maxWaitTime,   \* parameter of waitForNestedObject
  interval,      \* parameter of waitForNestedObject
  nestedPath,    \* the values found along the path under rootObj
  timer,         \* the scheduled run of checkObject and the delay it was set with
  promise,       \* state of the promise waitForNestedObject returned
  polls          \* the runs of checkObject: when, and what each did

regVars == <<sessions, drivers, creates, lastCreate, store>>
reqVars == <<req, driverLog, concurrency>>
hookVars == <<enableWebHook, globalApiKey, calls, returned, posts, logs, unhandled>>
filterVars == <<envDisabledCallbacks, disabledCallbacks, routed>>
sinkVars == <<hookVars, filterVars>>
startVars == <<baseWebhookURL, envEnableWebSocket, enableWebSocket, autoStartSessions, recoverSessions, pc,
               exitCode, listening, restoreCalls, upgradeListeners, upgradeRequests,
               handleUpgradeCalls>>
runVars == <<restarts, snapshot, pending, attempted>>
histVars == <<removed, failureEvents>>
fetchVars == <<chatMsgs, earlierMsgs, searchOptions, fetched, fetchPc, pageMsgs, storeChanges>>
waitVars == <<now, maxWaitTime, interval, nestedPath, timer, promise, polls>>
utilVars == <<fetchVars, waitVars>>
vars == <<regVars, reqVars, hookVars, filterVars, startVars, runVars, histVars, utilVars>>

Req == 1..MaxReq

IdleReq == [pc |-> "idle", op |-> "none", sessionId |-> "none", contentType |-> "none",
            body |-> "none", chat |-> "none", err |-> "none", failedAt |-> "none",
            res |-> <<>>]

\* ------------------------------------------------------ utils.js helpers
SendErrorResponse(status, message) ==
  [status |-> status, success |-> FALSE, key |-> "error", value |-> message]

ResJson(key, value) ==
  [status |-> 200, success |-> TRUE, key |-> key, value |-> value]

\* ------------- session registry (design document, sections 4.1 and 4.2)
Registered(id) == sessions[id] # NoSession

\* faulty variant: create without the existence check
CreateMissingCheck(id) ==
  /\ creates < MaxCreate
  /\ creates' = creates + 1
  /\ sessions' = [sessions EXCEPT ![id] = "STARTING"]
  /\ drivers' = [drivers EXCEPT ![id] = @ + 1]
  /\ lastCreate' = [id |-> id, result |-> "created"]
  /\ removed' = [removed EXCEPT ![id] = "none"]
  /\ UNCHANGED <<store, failureEvents, reqVars, sinkVars, startVars, runVars, utilVars>>

Create(id) ==
  /\ creates < MaxCreate
  /\ creates' = creates + 1
  /\ IF Registered(id)
       THEN /\ lastCreate' = [id |-> id, result |-> "AlreadyExistsError"]
            /\ UNCHANGED <<sessions, drivers, removed>>
       ELSE /\ sessions' = [sessions EXCEPT ![id] = "STARTING"]
            /\ drivers' = [drivers EXCEPT ![id] = @ + 1]
            /\ lastCreate' = [id |-> id, result |-> "created"]
            /\ removed' = [removed EXCEPT ![id] = "none"]
  /\ UNCHANGED <<store, failureEvents, reqVars, sinkVars, startVars, runVars, utilVars>>

\* stop (deleteStore = FALSE) and terminate (deleteStore = TRUE); removing an
\* unknown identity is a no-op
Remove(id, deleteStore) ==
  /\ IF Registered(id)
       THEN /\ sessions' = [sessions EXCEPT ![id] = NoSession]
            /\ drivers' = [drivers EXCEPT ![id] = @ - 1]
            /\ store' = IF deleteStore THEN store \ {id} ELSE store
            /\ removed' = [removed EXCEPT ![id] = IF deleteStore THEN "terminate" ELSE "stop"]
       ELSE UNCHANGED <<sessions, drivers, store, removed>>
  /\ UNCHANGED <<creates, lastCreate, failureEvents, reqVars, sinkVars, startVars, runVars,
                 utilVars>>

\* the state machine of 4.2: transitions are driven by Driver events
NextStates(s) ==
  CASE s = "STARTING"       -> {"AUTHENTICATING", "FAILED"}
    [] s = "AUTHENTICATING" -> {"CONNECTED", "FAILED"}
    [] s = "CONNECTED"      -> {"DISCONNECTED"}
    [] s = "DISCONNECTED"   -> {"AUTHENTICATING", "FAILED"}
    [] OTHER                -> {}

DriverEvent(id) ==
  /\ Registered(id)
  /\ \E t \in NextStates(sessions[id]) :
       /\ sessions' = [sessions EXCEPT ![id] = t]
       /\ store' = IF t = "CONNECTED" THEN store \cup {id} ELSE store
  /\ UNCHANGED <<drivers, creates, lastCreate, reqVars, sinkVars, startVars, runVars,
                 histVars, utilVars>>

\* the failure Event of a Session, with what the recovery run had left to do
FailureEvent(id) == [id |-> id, pending |-> pending]

\* faulty variant: the failure of one Session ends the recovery run
FailedRemovedAborting(id) ==
  /\ sessions[id] = "FAILED"
  /\ sessions' = [sessions EXCEPT ![id] = NoSession]
  /\ drivers' = [drivers EXCEPT ![id] = @ - 1]
  /\ failureEvents' = failureEvents \cup {FailureEvent(id)}
  /\ pending' = {}
  /\ UNCHANGED <<creates, lastCreate, store, removed, restarts, snapshot, attempted,
                 reqVars, sinkVars, startVars, utilVars>>

\* a FAILED Session is removed from the registry automatically, after its
\* failure Event
FailedRemoved(id) ==
  /\ sessions[id] = "FAILED"
  /\ sessions' = [sessions EXCEPT ![id] = NoSession]
  /\ drivers' = [drivers EXCEPT ![id] = @ - 1]
  /\ failureEvents' = failureEvents \cup {FailureEvent(id)}
  /\ UNCHANGED <<creates, lastCreate, store, removed, runVars, reqVars, sinkVars,
                 startVars, utilVars>>

\* ------------------------------- recovery coordinator (design document, 4.3)
\* restoreSessions: the run takes the identities the store holds
restoreSessions ==
  /\ restoreCalls' = restoreCalls + 1
  /\ snapshot' = store
  /\ pending' = store
  /\ attempted' = {}

\* one identity of the run: create with recovery semantics (skip if present)
RecoverSession(id) ==
  /\ pc = "running"
  /\ id \in pending
  /\ pending' = pending \ {id}
  /\ attempted' = attempted \cup {id}
  /\ IF Registered(id)
       THEN UNCHANGED <<sessions, drivers, removed>>
       ELSE /\ sessions' = [sessions EXCEPT ![id] = "STARTING"]
            /\ drivers' = [drivers EXCEPT ![id] = @ + 1]
            /\ removed' = [removed EXCEPT ![id] = IF @ = "stop" THEN "restored" ELSE "none"]
  /\ UNCHANGED <<creates, lastCreate, store, restarts, snapshot, failureEvents, reqVars,
                 sinkVars, startVars, utilVars>>

\* the process is started again: the registry is in memory and starts empty,
\* the store persists
Restart ==
  /\ restarts < MaxRestart
  /\ restarts' = restarts + 1
  /\ sessions' = [id \in Identity |-> NoSession]
  /\ drivers' = [id \in Identity |-> 0]
  /\ listening' = FALSE
  /\ restoreCalls' = 0
  /\ snapshot' = {}
  /\ pending' = {}
  /\ attempted' = {}
  /\ failureEvents' = {}
  /\ UNCHANGED <<creates, lastCreate, store, removed, baseWebhookURL, envEnableWebSocket, enableWebSocket,
                 autoStartSessions, recoverSessions, pc, exitCode, upgradeListeners,
                 upgradeRequests, handleUpgradeCalls, reqVars, sinkVars, utilVars>>

\* ------------------------------------------------------------- config.js
\* the values ENABLE_WEBSOCKET is given, "undefined" when it is not set
EnvWebSocket == {"undefined", "", "true", "TRUE", "false", "1"}

\* String.prototype.toLowerCase on these values
ToLowerCase(s) == IF s = "TRUE" THEN "true" ELSE s

\* process.env.ENABLE_WEBSOCKET ? (..).toLowerCase() === 'true' : false
EnableWebSocketOf(env) ==
  IF env \in {"undefined", ""} THEN FALSE ELSE ToLowerCase(env) = "true"

\* ------------------------------------------------------------- server.js
\* !baseWebhookURL: the variable is unset or empty
NoBaseWebhookURL == baseWebhookURL \in {"undefined", ""}

\* faulty variant: the missing URL ends the process whether or not the
\* webhook is enabled
CheckWebhookURLAlways ==
  /\ pc = "check"
  /\ IF NoBaseWebhookURL
       THEN pc' = "exited" /\ exitCode' = 1
       ELSE pc' = "listen" /\ UNCHANGED exitCode
  /\ UNCHANGED <<baseWebhookURL, envEnableWebSocket, enableWebSocket, autoStartSessions, recoverSessions,
                 listening, restoreCalls, upgradeListeners, upgradeRequests,
                 handleUpgradeCalls, regVars, reqVars, sinkVars, runVars, histVars, utilVars>>

\* if (!baseWebhookURL && enableWebHook) process.exit(1)
CheckWebhookURL ==
  /\ pc = "check"
  /\ IF NoBaseWebhookURL /\ enableWebHook
       THEN pc' = "exited" /\ exitCode' = 1
       ELSE pc' = "listen" /\ UNCHANGED exitCode
  /\ UNCHANGED <<baseWebhookURL, envEnableWebSocket, enableWebSocket, autoStartSessions, recoverSessions,
                 listening, restoreCalls, upgradeListeners, upgradeRequests,
                 handleUpgradeCalls, regVars, reqVars, sinkVars, runVars, histVars, utilVars>>

\* const server = app.listen(servicePort, callback): the callback runs later
AppListen ==
  /\ pc = "listen"
  /\ pc' = "upgrade"
  /\ UNCHANGED <<baseWebhookURL, envEnableWebSocket, enableWebSocket, autoStartSessions, recoverSessions,
                 exitCode, listening, restoreCalls, upgradeListeners, upgradeRequests,
                 handleUpgradeCalls, regVars, reqVars, sinkVars, runVars, histVars, utilVars>>

\* faulty variant: the listener is installed whatever enableWebSocket says
OnUpgradeAlways ==
  /\ pc = "upgrade"
  /\ pc' = "running"
  /\ upgradeListeners' = upgradeListeners + 1
  /\ UNCHANGED <<baseWebhookURL, envEnableWebSocket, enableWebSocket, autoStartSessions,
                 recoverSessions, exitCode, listening, restoreCalls, upgradeRequests,
                 handleUpgradeCalls, regVars, reqVars, sinkVars, runVars, histVars, utilVars>>

\* if (enableWebSocket) server.on('upgrade', ...), to the end of the module
OnUpgrade ==
  /\ pc = "upgrade"
  /\ pc' = "running"
  /\ upgradeListeners' = IF enableWebSocket THEN upgradeListeners + 1 ELSE upgradeListeners
  /\ UNCHANGED <<baseWebhookURL, envEnableWebSocket, enableWebSocket, autoStartSessions, recoverSessions,
                 exitCode, listening, restoreCalls, upgradeRequests,
                 handleUpgradeCalls, regVars, reqVars, sinkVars, runVars, histVars, utilVars>>

\* faulty variant: the callback restores the sessions whatever the flag says
ServerListeningUngated ==
  /\ pc = "running"
  /\ ~listening
  /\ listening' = TRUE
  /\ restoreSessions
  /\ UNCHANGED <<baseWebhookURL, envEnableWebSocket, enableWebSocket, autoStartSessions, recoverSessions, pc,
                 exitCode, upgradeListeners, upgradeRequests, handleUpgradeCalls,
                 restarts, regVars, reqVars, sinkVars, histVars, utilVars>>

\* the callback of app.listen: it runs once, when the server is listening
ServerListening ==
  /\ pc = "running"
  /\ ~listening
  /\ listening' = TRUE
  /\ IF autoStartSessions
       THEN restoreSessions
       ELSE UNCHANGED <<restoreCalls, snapshot, pending, attempted>>
  /\ UNCHANGED <<baseWebhookURL, envEnableWebSocket, enableWebSocket, autoStartSessions, recoverSessions, pc,
                 exitCode, upgradeListeners, upgradeRequests, handleUpgradeCalls,
                 restarts, regVars, reqVars, sinkVars, histVars, utilVars>>

\* an upgrade request reaches the listening server: every installed listener
\* hands it to handleUpgrade
UpgradeRequest ==
  /\ listening
  /\ upgradeRequests < MaxUpgrade
  /\ upgradeRequests' = upgradeRequests + 1
  /\ handleUpgradeCalls' = handleUpgradeCalls + upgradeListeners
  /\ UNCHANGED <<baseWebhookURL, envEnableWebSocket, enableWebSocket, autoStartSessions, recoverSessions, pc,
                 exitCode, listening, restoreCalls, upgradeListeners,
                 regVars, reqVars, sinkVars, runVars, histVars, utilVars>>

\* ------------------------------------------- channelController handlers
\* requests are numbered in the order they arrive; the clients keep at most
\* `concurrency` of them in flight
InFlight == {q \in Req : req[q].pc \notin {"idle", "done", "escaped"}}

Arrives(r) ==
  /\ req[r].pc = "idle"
  /\ (IF r = 1 THEN TRUE ELSE req[r - 1].pc # "idle")
  /\ Cardinality(InFlight) < concurrency

\* res.status(..).json(..) or res.json(..), and the handler returns
Answered(q, response) == [q EXCEPT !.pc = "done", !.res = Append(@, response)]

Respond(r, response) == req' = [req EXCEPT ![r] = Answered(req[r], response)]

\* faulty variant: the handler has no catch clause, the error leaves it
Uncaught(q, at, message) == [q EXCEPT !.pc = "escaped", !.err = message, !.failedAt = at]

\* catch (error) { sendErrorResponse(res, 500, error.message) }
Caught(q, at, message) ==
  [q EXCEPT !.pc = "done", !.err = message, !.failedAt = at,
            !.res = Append(@, SendErrorResponse(500, message))]

DriverCall(r, op) ==
  driverLog' = Append(driverLog, [req |-> r, op |-> op])

\* the locals a handler reads from the request
Started(r, op, sid, ct, body) ==
  [req[r] EXCEPT !.op = op, !.sessionId = sid, !.contentType = ct, !.body = body]

\* every handler up to its first await: sessions.get(req.params.sessionId),
\* then client.getChatById(chatId), a TypeError when client is undefined
Enter(r, q) ==
  IF sessions[q.sessionId] = NoSession
    THEN /\ req' = [req EXCEPT ![r] = Caught(q, "client.getChatById", TypeErrNoClient)]
         /\ UNCHANGED driverLog
    ELSE /\ req' = [req EXCEPT ![r] = [q EXCEPT !.pc = "awaitGetChat"]]
         /\ DriverCall(r, "getChatById")

\* the chat passes both checks
IsChannel(o) == o.kind = "resolve" /\ o.val = "channel"

\* faulty variant: the 404 branch does not return, the handler goes on to read
\* chat.isChannel of undefined and its catch clause answers a second time
RefusedFallsThrough(q, o) ==
  IF o.kind = "reject" THEN Caught(q, "getChatById", o.val)
  ELSE IF o.val = "undefined"
    THEN Caught(Answered([q EXCEPT !.chat = o.val], SendErrorResponse(404, "Channel not Found")),
                "chat.isChannel", "Cannot read properties of undefined (reading 'isChannel')")
  ELSE Answered([q EXCEPT !.chat = o.val], SendErrorResponse(400, "The chat is not a channel"))

\* getChatById rejected, or the chat fails if (!chat) or if (!chat.isChannel)
Refused(q, o) ==
  IF o.kind = "reject" THEN Caught(q, "getChatById", o.val)
  ELSE IF o.val = "undefined"
    THEN Answered([q EXCEPT !.chat = o.val], SendErrorResponse(404, "Channel not Found"))
  ELSE Answered([q EXCEPT !.chat = o.val], SendErrorResponse(400, "The chat is not a channel"))

\* the chat is a channel and the handler goes on to position p
Passed(q, o, p) == [q EXCEPT !.chat = o.val, !.pc = p]

getClassInfo(r, sid) ==
  /\ Arrives(r)
  /\ Enter(r, Started(r, "getClassInfo", sid, "none", "none"))
  /\ UNCHANGED <<concurrency, regVars, sinkVars, startVars, runVars, histVars, utilVars>>

getClassInfoResume(r, o) ==
  /\ req[r].pc = "awaitGetChat"
  /\ req[r].op = "getClassInfo"
  /\ IF IsChannel(o)
       THEN req' = [req EXCEPT ![r] = Answered(Passed(req[r], o, "done"), ResJson("channel", o.val))]
       ELSE req' = [req EXCEPT ![r] = Refused(req[r], o)]
  /\ UNCHANGED <<driverLog, concurrency, regVars, sinkVars, startVars, runVars, histVars,
                 utilVars>>

\* the bodies of a sendMessage request: contentType, and whether content is given
SendBodies ==
  {[contentType |-> "string", content |-> "content"],
   [contentType |-> "MessageMediaFromURL", content |-> "content"],
   [contentType |-> "MessageMedia", content |-> "content"],
   [contentType |-> "MessageMedia", content |-> "undefined"],
   [contentType |-> "other", content |-> "content"]}

\* the TypeError raised by `content.mimetype` when content is undefined
TypeErrNoContent == "Cannot read properties of undefined (reading 'mimetype')"

sendMessage(r, sid, b) ==
  /\ Arrives(r)
  /\ Enter(r, Started(r, "sendMessage", sid, b.contentType, b.content))
  /\ UNCHANGED <<concurrency, regVars, sinkVars, startVars, runVars, histVars, utilVars>>

\* faulty variant: an unknown contentType is sent as a string
sendMessageResumeLenient(r, o) ==
  /\ req[r].pc = "awaitGetChat"
  /\ req[r].op = "sendMessage"
  /\ IF ~IsChannel(o)
       THEN req' = [req EXCEPT ![r] = Refused(req[r], o)] /\ UNCHANGED driverLog
     ELSE IF req[r].contentType = "MessageMediaFromURL"
       THEN req' = [req EXCEPT ![r] = Passed(req[r], o, "awaitFromUrl")] /\ UNCHANGED driverLog
     ELSE IF req[r].contentType = "MessageMedia" /\ req[r].body = "undefined"
       THEN /\ req' = [req EXCEPT ![r] =
                         Caught(Passed(req[r], o, "done"), "new MessageMedia", TypeErrNoContent)]
            /\ UNCHANGED driverLog
     ELSE /\ req' = [req EXCEPT ![r] = Passed(req[r], o, "awaitSend")]
          /\ DriverCall(r, "sendMessage")
  /\ UNCHANGED <<concurrency, regVars, sinkVars, startVars, runVars, histVars, utilVars>>

\* sendMessage from the chat checks to the switch on contentType
sendMessageResume(r, o) ==
  /\ req[r].pc = "awaitGetChat"
  /\ req[r].op = "sendMessage"
  /\ IF ~IsChannel(o)
       THEN req' = [req EXCEPT ![r] = Refused(req[r], o)] /\ UNCHANGED driverLog
     ELSE IF req[r].contentType = "string"
       THEN /\ req' = [req EXCEPT ![r] = Passed(req[r], o, "awaitSend")]
            /\ DriverCall(r, "sendMessage")
     ELSE IF req[r].contentType = "MessageMediaFromURL"
       THEN req' = [req EXCEPT ![r] = Passed(req[r], o, "awaitFromUrl")] /\ UNCHANGED driverLog
     ELSE IF req[r].contentType = "MessageMedia"
       THEN IF req[r].body = "undefined"
              THEN /\ req' = [req EXCEPT ![r] =
                                Caught(Passed(req[r], o, "done"), "new MessageMedia",
                                       TypeErrNoContent)]
                   /\ UNCHANGED driverLog
              ELSE /\ req' = [req EXCEPT ![r] = Passed(req[r], o, "awaitSend")]
                   /\ DriverCall(r, "sendMessage")
     ELSE /\ req' = [req EXCEPT ![r] =
                       Answered(Passed(req[r], o, "done"),
                                SendErrorResponse(400, "invalid contentType"))]
          /\ UNCHANGED driverLog
  /\ UNCHANGED <<concurrency, regVars, sinkVars, startVars, runVars, histVars, utilVars>>

\* await MessageMedia.fromUrl(content, ...), then chat.sendMessage
sendMessageFromUrl(r, o) ==
  /\ req[r].pc = "awaitFromUrl"
  /\ req[r].op = "sendMessage"
  /\ IF o.kind = "reject"
       THEN req' = [req EXCEPT ![r] = Caught(req[r], "MessageMedia.fromUrl", o.val)]
            /\ UNCHANGED driverLog
       ELSE req' = [req EXCEPT ![r].pc = "awaitSend"] /\ DriverCall(r, "sendMessage")
  /\ UNCHANGED <<concurrency, regVars, sinkVars, startVars, runVars, histVars, utilVars>>

sendMessageSent(r, o) ==
  /\ req[r].pc = "awaitSend"
  /\ IF o.kind = "reject"
       THEN req' = [req EXCEPT ![r] = Caught(req[r], "sendMessage", o.val)]
       ELSE Respond(r, ResJson("message", "messageOut"))
  /\ UNCHANGED <<driverLog, concurrency, regVars, sinkVars, startVars, runVars, histVars,
                 utilVars>>

\* the bodies of a fetchMessages request: searchOptions with keys, or none
\* (searchOptions = {} by default)
FetchBodies == {"searchOptions", "none"}

fetchMessages(r, sid, b) ==
  /\ Arrives(r)
  /\ Enter(r, Started(r, "fetchMessages", sid, "none", b))
  /\ UNCHANGED <<concurrency, regVars, sinkVars, startVars, runVars, histVars, utilVars>>

\* chat.fetchMessages(searchOptions) or chat.fetchMessages()
fetchMessagesResume(r, o) ==
  /\ req[r].pc = "awaitGetChat"
  /\ req[r].op = "fetchMessages"
  /\ IF IsChannel(o)
       THEN /\ req' = [req EXCEPT ![r] = Passed(req[r], o, "awaitFetch")]
            /\ DriverCall(r, "fetchMessages")
       ELSE req' = [req EXCEPT ![r] = Refused(req[r], o)] /\ UNCHANGED driverLog
  /\ UNCHANGED <<concurrency, regVars, sinkVars, startVars, runVars, histVars, utilVars>>

fetchMessagesFetched(r, o) ==
  /\ req[r].pc = "awaitFetch"
  /\ IF o.kind = "reject"
       THEN req' = [req EXCEPT ![r] = Caught(req[r], "fetchMessages", o.val)]
       ELSE Respond(r, ResJson("messages", "messages"))
  /\ UNCHANGED <<driverLog, concurrency, regVars, sinkVars, startVars, runVars, histVars,
                 utilVars>>

\* the handlers that make one call on the chat and answer with its result:
\* sendSeen, mute, unmute, setSubject, acceptChannelAdminInvite,
\* sendChannelAdminInvite, demoteChannelAdmin, transferChannelOwnership,
\* revokeChannelAdminInvite, getSubscribers, deleteChannel, setReactionSetting
\* and setDescription have one shape; two of them stand for all
ChannelOps == {"mute", "deleteChannel"}

channelOp(r, sid, op) ==
  /\ Arrives(r)
  /\ Enter(r, Started(r, op, sid, "none", "none"))
  /\ UNCHANGED <<concurrency, regVars, sinkVars, startVars, runVars, histVars, utilVars>>

\* faulty variant: the operation is invoked before the chat is checked
channelOpResumeUnchecked(r, o) ==
  /\ req[r].pc = "awaitGetChat"
  /\ req[r].op \in ChannelOps
  /\ IF o.kind = "resolve"
       THEN /\ req' = [req EXCEPT ![r] = Passed(req[r], o, "awaitOp")]
            /\ DriverCall(r, req[r].op)
       ELSE req' = [req EXCEPT ![r] = Refused(req[r], o)] /\ UNCHANGED driverLog
  /\ UNCHANGED <<concurrency, regVars, sinkVars, startVars, runVars, histVars, utilVars>>

\* const result = await chat.<op>(...)
channelOpResume(r, o) ==
  /\ req[r].pc = "awaitGetChat"
  /\ req[r].op \in ChannelOps
  /\ IF IsChannel(o)
       THEN /\ req' = [req EXCEPT ![r] = Passed(req[r], o, "awaitOp")]
            /\ DriverCall(r, req[r].op)
       ELSE req' = [req EXCEPT ![r] = Refused(req[r], o)] /\ UNCHANGED driverLog
  /\ UNCHANGED <<concurrency, regVars, sinkVars, startVars, runVars, histVars, utilVars>>

channelOpDone(r, o) ==
  /\ req[r].pc = "awaitOp"
  /\ IF o.kind = "reject"
       THEN req' = [req EXCEPT ![r] = Caught(req[r], req[r].op, o.val)]
       ELSE Respond(r, ResJson("result", "result"))
  /\ UNCHANGED <<driverLog, concurrency, regVars, sinkVars, startVars, runVars, histVars,
                 utilVars>>

\* the bodies of a setProfilePicture request: newProfilePictureUrl given,
\* newProfilePictureMedia (with data) given, or neither
PictureBodies == {"url", "media", "none"}

setProfilePicture(r, sid, b) ==
  /\ Arrives(r)
  /\ Enter(r, Started(r, "setProfilePicture", sid, "none", b))
  /\ UNCHANGED <<concurrency, regVars, sinkVars, startVars, runVars, histVars, utilVars>>

\* newProfilePictureUrl && (await MessageMedia.fromUrl(...)), else straight
\* to chat.setProfilePicture(messageMedia)
setProfilePictureResume(r, o) ==
  /\ req[r].pc = "awaitGetChat"
  /\ req[r].op = "setProfilePicture"
  /\ IF ~IsChannel(o)
       THEN req' = [req EXCEPT ![r] = Refused(req[r], o)] /\ UNCHANGED driverLog
     ELSE IF req[r].body = "url"
       THEN req' = [req EXCEPT ![r] = Passed(req[r], o, "awaitFromUrl")] /\ UNCHANGED driverLog
     ELSE /\ req' = [req EXCEPT ![r] = Passed(req[r], o, "awaitSet")]
          /\ DriverCall(r, "setProfilePicture")
  /\ UNCHANGED <<concurrency, regVars, sinkVars, startVars, runVars, histVars, utilVars>>

setProfilePictureFromUrl(r, o) ==
  /\ req[r].pc = "awaitFromUrl"
  /\ req[r].op = "setProfilePicture"
  /\ IF o.kind = "reject"
       THEN req' = [req EXCEPT ![r] = Caught(req[r], "MessageMedia.fromUrl", o.val)]
            /\ UNCHANGED driverLog
       ELSE req' = [req EXCEPT ![r].pc = "awaitSet"] /\ DriverCall(r, "setProfilePicture")
  /\ UNCHANGED <<concurrency, regVars, sinkVars, startVars, runVars, histVars, utilVars>>

setProfilePictureSet(r, o) ==
  /\ req[r].pc = "awaitSet"
  /\ IF o.kind = "reject"
       THEN req' = [req EXCEPT ![r] = Caught(req[r], "setProfilePicture", o.val)]
       ELSE Respond(r, ResJson("result", "result"))
  /\ UNCHANGED <<driverLog, concurrency, regVars, sinkVars, startVars, runVars, histVars,
                 utilVars>>

\* ------------------------------------------------ utils.triggerWebhook
WebhookURLs == {"http://hook/a", "http://hook/b"}

\* process.env.API_KEY, set or not
ApiKeys == {"secret", "undefined"}

\* the events handed to the dispatcher: session, type and payload ('ready'
\* is sent without data)
Emitted ==
  {[sessionId |-> "A", dataType |-> "message", data |-> "payload"],
   [sessionId |-> "A", dataType |-> "ready", data |-> "undefined"],
   [sessionId |-> "B", dataType |-> "message", data |-> "payload"]}

\* what makes the promise of axios.post reject
PostFailures == {"network error", "non-2xx response"}

\* the request axios.post(url, body, config) initiates for the current call
AxiosPost(url, body, headers) ==
  [call |-> Len(calls) + 1, method |-> "POST", url |-> url, body |-> body,
   headers |-> headers, state |-> "pending"]

\* faulty variant: the caller is held until the POST is answered
triggerWebhookAwaited(webhookURL, sessionId, dataType, data) ==
  /\ IF enableWebHook
       THEN /\ posts' = Append(posts,
                          AxiosPost(webhookURL,
                                    [dataType |-> dataType, data |-> data, sessionId |-> sessionId],
                                    "x-api-key" :> globalApiKey))
            /\ returned' = Append(returned, "awaiting")
       ELSE /\ UNCHANGED posts
            /\ returned' = Append(returned, "undefined")
  /\ UNCHANGED <<logs, unhandled>>

\* faulty variant: a later POST overtakes the earlier ones
triggerWebhookDeferred(webhookURL, sessionId, dataType, data) ==
  /\ IF enableWebHook
       THEN posts' = << AxiosPost(webhookURL,
                                  [dataType |-> dataType, data |-> data, sessionId |-> sessionId],
                                  "x-api-key" :> globalApiKey) >> \o posts
       ELSE UNCHANGED posts
  /\ returned' = Append(returned, "undefined")
  /\ UNCHANGED <<logs, unhandled>>

\* faulty variant: dataType and data change places in the body
triggerWebhookSwapped(webhookURL, sessionId, dataType, data) ==
  /\ IF enableWebHook
       THEN posts' = Append(posts,
                       AxiosPost(webhookURL,
                                 [dataType |-> data, data |-> dataType, sessionId |-> sessionId],
                                 "x-api-key" :> globalApiKey))
       ELSE UNCHANGED posts
  /\ returned' = Append(returned, "undefined")
  /\ UNCHANGED <<logs, unhandled>>

\* faulty variant: the POST is initiated whatever enableWebHook says
triggerWebhookUnconditional(webhookURL, sessionId, dataType, data) ==
  /\ posts' = Append(posts,
                AxiosPost(webhookURL,
                          [dataType |-> dataType, data |-> data, sessionId |-> sessionId],
                          "x-api-key" :> globalApiKey))
  /\ returned' = Append(returned, "undefined")
  /\ UNCHANGED <<logs, unhandled>>

\* the call initiates the POST and returns undefined without awaiting it
triggerWebhook(webhookURL, sessionId, dataType, data) ==
  /\ IF enableWebHook
       THEN posts' = Append(posts,
                       AxiosPost(webhookURL,
                                 [dataType |-> dataType, data |-> data, sessionId |-> sessionId],
                                 "x-api-key" :> globalApiKey))
       ELSE UNCHANGED posts
  /\ returned' = Append(returned, "undefined")
  /\ UNCHANGED <<logs, unhandled>>

\* the emitter of the events: it hands over the next event when the call for
\* the previous one has returned
EmitEvent(e, url) ==
  /\ Len(calls) < MaxEvents
  /\ \A c \in DOMAIN returned : returned[c] # "awaiting"
  /\ calls' = Append(calls, [webhookURL |-> url, sessionId |-> e.sessionId,
                             dataType |-> e.dataType, data |-> e.data])
  /\ triggerWebhook(url, e.sessionId, e.dataType, e.data)
  /\ UNCHANGED <<enableWebHook, globalApiKey, regVars, reqVars, filterVars,
                 startVars, runVars, histVars, utilVars>>

EmitNext == \E e \in Emitted, url \in WebhookURLs : EmitEvent(e, url)

\* .then(() => logger.debug(...))
postThen(p) ==
  /\ p \in DOMAIN posts
  /\ posts[p].state = "pending"
  /\ posts' = [posts EXCEPT ![p].state = "fulfilled"]
  /\ logs' = logs \cup {[level |-> "debug", call |-> posts[p].call, err |-> "none"]}
  /\ UNCHANGED <<enableWebHook, globalApiKey, calls, returned, unhandled,
                 regVars, reqVars, filterVars,
                 startVars, runVars, histVars, utilVars>>

\* faulty variant: a failed POST is attempted again
postCatchRetried(p, error) ==
  /\ p \in DOMAIN posts
  /\ posts[p].state = "pending"
  /\ posts' = Append([posts EXCEPT ![p].state = "rejected"], [posts[p] EXCEPT !.state = "pending"])
  /\ logs' = logs \cup {[level |-> "error", call |-> posts[p].call, err |-> error]}
  /\ UNCHANGED <<enableWebHook, globalApiKey, calls, returned, unhandled,
                 regVars, reqVars, filterVars,
                 startVars, runVars, histVars, utilVars>>

\* faulty variant: no catch callback, the rejection stays unhandled
postCatchUncaught(p, error) ==
  /\ p \in DOMAIN posts
  /\ posts[p].state = "pending"
  /\ posts' = [posts EXCEPT ![p].state = "rejected"]
  /\ unhandled' = unhandled \cup {p}
  /\ UNCHANGED <<enableWebHook, globalApiKey, calls, returned, logs,
                 regVars, reqVars, filterVars,
                 startVars, runVars, histVars, utilVars>>

\* .catch(error => logger.error(...))
postCatch(p, error) ==
  /\ p \in DOMAIN posts
  /\ posts[p].state = "pending"
  /\ posts' = [posts EXCEPT ![p].state = "rejected"]
  /\ logs' = logs \cup {[level |-> "error", call |-> posts[p].call, err |-> error]}
  /\ UNCHANGED <<enableWebHook, globalApiKey, calls, returned, unhandled,
                 regVars, reqVars, filterVars,
                 startVars, runVars, histVars, utilVars>>

\* ----------------------------- config.disabledCallbacks, utils.isEventEnabled
\* strings are sequences of characters
Alphabet == {"a", "b", "|"}

RECURSIVE Strings(_)
Strings(n) ==
  IF n = 0 THEN {<<>>}
  ELSE Strings(n - 1) \cup {Append(s, c) : s \in Strings(n - 1), c \in Alphabet}

EnvUnset == [set |-> FALSE, val |-> <<>>]

EnvValues == {EnvUnset} \cup {[set |-> TRUE, val |-> s] : s \in Strings(MaxEnvLen)}

EventTypes == Strings(MaxTypeLen) \ {<<>>}

\* String.prototype.split with a one-character separator
RECURSIVE Split(_, _)
Split(s, sep) ==
  IF \E i \in 1..Len(s) : s[i] = sep
    THEN LET i == CHOOSE i \in 1..Len(s) : s[i] = sep /\ \A j \in 1..(i - 1) : s[j] # sep
         IN <<SubSeq(s, 1, i - 1)>> \o Split(SubSeq(s, i + 1, Len(s)), sep)
    ELSE <<s>>

\* process.env.DISABLED_CALLBACKS ? process.env.DISABLED_CALLBACKS.split('|') : []
\* (an unset variable and an empty string are both falsy)
DisabledCallbacksOf(env) ==
  IF env.set /\ env.val # <<>> THEN Split(env.val, "|") ELSE <<>>

\* Array.prototype.includes
Includes(list, x) == \E i \in DOMAIN list : list[i] = x

\* faulty variant: the negation is lost
isEventEnabledInverted(event) == Includes(disabledCallbacks, event)

isEventEnabled(event) == ~Includes(disabledCallbacks, event)

NotRouted == [type |-> <<>>, webhook |-> FALSE, websocket |-> FALSE]

\* the Event Router: the filter is evaluated once per event, for both sinks
RouteEvent(t) ==
  /\ LET enabled == isEventEnabled(t)
     IN routed' = [type |-> t, webhook |-> enabled, websocket |-> enabled]
  /\ UNCHANGED <<envDisabledCallbacks, disabledCallbacks, hookVars, regVars, reqVars,
               startVars, runVars, histVars, utilVars>>

\* --------------------------------------- utils.js: Chat.fetchMessages
\* a message of the chat store: timestamp t, id.fromMe and isNotification
Msgs == [t : 1..MaxT, fromMe : BOOLEAN, isNotification : BOOLEAN]

RECURSIVE SeqsUpTo(_, _)
SeqsUpTo(S, n) ==
  IF n = 0 THEN {<<>>}
  ELSE SeqsUpTo(S, n - 1) \cup {Append(q, x) : q \in SeqsUpTo(S, n - 1), x \in S}

\* an option of searchOptions, given or left undefined
NotGiven(v) == [set |-> FALSE, val |-> v]

Given(v) == [set |-> TRUE, val |-> v]

NoSearchOptions == [limit |-> NotGiven(0), fromMe |-> NotGiven(FALSE), since |-> NotGiven(0)]

SearchOptions ==
  [limit : {NotGiven(0)} \cup {Given(n) : n \in 0..MaxLimit},
   fromMe : {NotGiven(FALSE)} \cup {Given(b) : b \in BOOLEAN},
   since : {NotGiven(0)} \cup {Given(n) : n \in 1..MaxT}]

NotFetched == [done |-> FALSE, msgs |-> <<>>]

msgFilter(m, so) ==
  /\ ~m.isNotification
  /\ so.fromMe.set => m.fromMe = so.fromMe.val
  /\ so.since.set => m.t >= so.since.val

\* Array.prototype.filter
RECURSIVE Filter(_, _)
Filter(msgs, so) ==
  IF msgs = <<>> THEN <<>>
  ELSE IF msgFilter(Head(msgs), so) THEN <<Head(msgs)>> \o Filter(Tail(msgs), so)
  ELSE Filter(Tail(msgs), so)

\* while (msgs.length < limit): loadEarlierMsgs hands back the next chunk, or
\* nothing when there is none left, and the chunk is put in front
RECURSIVE LoadEarlier(_, _, _)
LoadEarlier(msgs, chunks, so) ==
  IF Len(msgs) < so.limit.val /\ chunks # <<>>
    THEN LoadEarlier(Filter(Head(chunks), so) \o msgs, Tail(chunks), so)
    ELSE msgs

\* msgs.sort((a, b) => (a.t > b.t) ? 1 : -1): the comparator never answers 0,
\* so the order of messages with one timestamp is left to the engine
SortedByT(msgs) ==
  {[i \in DOMAIN msgs |-> msgs[p[i]]] :
     p \in {q \in [DOMAIN msgs -> DOMAIN msgs] :
              /\ \A i, j \in DOMAIN msgs : i # j => q[i] # q[j]
              /\ \A i, j \in DOMAIN msgs : i < j => msgs[q[i]].t <= msgs[q[j]].t}}

\* if (msgs.length > searchOptions.limit): sort, then keep the last `limit`
Cut(loaded, so) ==
  IF Len(loaded) > so.limit.val
    THEN {SubSeq(sorted, Len(sorted) - so.limit.val + 1, Len(sorted)) :
            sorted \in SortedByT(loaded)}
    ELSE {loaded}

\* searchOptions && searchOptions.limit > 0
HasLimit(so) == so.limit.set /\ so.limit.val > 0

\* what the call returns when nothing else runs while it is suspended: the
\* filtered store as it is, or with the earlier messages in front, sorted and
\* cut to the last `limit` only when too long
Fetched(store_, chunks, so) ==
  LET filtered == Filter(store_, so)
  IN IF HasLimit(so)
       THEN Cut(LoadEarlier(filtered, chunks, so), so)
       ELSE {filtered}

\* the page function from the end of the while loop to its return; the
\* call then waits for pupPage.evaluate to hand the result over
LeaveLoop(loaded) ==
  /\ pageMsgs' \in (IF HasLimit(searchOptions) THEN Cut(loaded, searchOptions) ELSE {loaded})
  /\ fetchPc' = "awaitEvaluate"

\* await window.WWebJS.getChat has settled: the store is read and filtered
\* now, and the while loop is entered
FetchMessagesGetChat ==
  /\ fetchPc = "awaitGetChat"
  /\ LET filtered == Filter(chatMsgs, searchOptions)
     IN IF HasLimit(searchOptions) /\ Len(filtered) < searchOptions.limit.val
          THEN pageMsgs' = filtered /\ fetchPc' = "awaitLoadEarlier"
          ELSE LeaveLoop(filtered)
  /\ UNCHANGED <<chatMsgs, earlierMsgs, searchOptions, fetched, storeChanges, waitVars,
                 regVars, reqVars, sinkVars, startVars, runVars, histVars>>

\* await loadEarlierMsgs has settled: break when it handed back nothing,
\* else put the filtered chunk in front and test the loop condition again
FetchMessagesLoadEarlier ==
  /\ fetchPc = "awaitLoadEarlier"
  /\ IF earlierMsgs = <<>>
       THEN LeaveLoop(pageMsgs) /\ UNCHANGED earlierMsgs
       ELSE /\ earlierMsgs' = Tail(earlierMsgs)
            /\ LET loaded == Filter(Head(earlierMsgs), searchOptions) \o pageMsgs
               IN IF Len(loaded) < searchOptions.limit.val
                    THEN pageMsgs' = loaded /\ UNCHANGED fetchPc
                    ELSE LeaveLoop(loaded)
  /\ UNCHANGED <<chatMsgs, searchOptions, fetched, storeChanges, waitVars,
                 regVars, reqVars, sinkVars, startVars, runVars, histVars>>

\* await pupPage.evaluate has settled: return messages.map(...)
FetchMessagesEvaluated ==
  /\ fetchPc = "awaitEvaluate"
  /\ fetched' = [done |-> TRUE, msgs |-> pageMsgs]
  /\ fetchPc' = "settled"
  /\ UNCHANGED <<chatMsgs, earlierMsgs, searchOptions, pageMsgs, storeChanges, waitVars,
                 regVars, reqVars, sinkVars, startVars, runVars, histVars>>

\* the call is suspended at one of its awaits
FetchUnderWay == fetchPc \in {"awaitGetChat", "awaitLoadEarlier", "awaitEvaluate"}

\* another callback runs while the call is suspended: a message arrives in
\* the chat store
MsgArrives(m) ==
  /\ FetchUnderWay
  /\ storeChanges < MaxStoreChanges
  /\ storeChanges' = storeChanges + 1
  /\ chatMsgs' = Append(chatMsgs, m)
  /\ UNCHANGED <<earlierMsgs, searchOptions, fetched, fetchPc, pageMsgs, waitVars,
                 regVars, reqVars, sinkVars, startVars, runVars, histVars>>

\* another callback runs while the call is suspended: the chat is cleared
MsgsCleared ==
  /\ FetchUnderWay
  /\ storeChanges < MaxStoreChanges
  /\ chatMsgs # <<>>
  /\ storeChanges' = storeChanges + 1
  /\ chatMsgs' = <<>>
  /\ UNCHANGED <<earlierMsgs, searchOptions, fetched, fetchPc, pageMsgs, waitVars,
                 regVars, reqVars, sinkVars, startVars, runVars, histVars>>

\* ------------------------------------------- utils.waitForNestedObject
\* what a key of the path holds: nothing, a falsy value, or an object
PathValues == {"undefined", "null", "object"}

\* the values along nestedPath under rootObj: below a value that is not an
\* object there is nothing
Paths ==
  {p \in [1..PathLen -> PathValues] :
     \A k \in 1..(PathLen - 1) : p[k] # "object" => p[k + 1] = "undefined"}

\* nestedPath.split('.').reduce((obj, key) => obj ? obj[key] : undefined, rootObj)
RECURSIVE Reduce(_, _)
Reduce(obj, p) ==
  IF p = <<>> THEN obj
  ELSE Reduce(IF obj = "object" THEN Head(p) ELSE "undefined", Tail(p))

NoTimer == [set |-> FALSE, delay |-> 0]

\* the clock stops at a time past every maxWaitTime
MaxClock == MaxWait + 1

\* the runs of checkObject that read t from Date.now()
PollsAt(t) == Cardinality({i \in DOMAIN polls : polls[i].at = t})

\* faulty variant: checkObject goes on to schedule the next poll after resolve
checkObjectFallsThrough ==
  /\ timer.set
  /\ PollsAt(now) < MaxPollsPerTick
  /\ LET nestedObj == Reduce("object", nestedPath)
     IN IF nestedObj = "object"
          THEN /\ promise' = "resolved"
               /\ timer' = [set |-> TRUE, delay |-> interval]
               /\ polls' = Append(polls, [at |-> now, path |-> nestedPath, did |-> "resolve"])
        ELSE IF now > maxWaitTime
          THEN /\ promise' = "rejected"
               /\ timer' = NoTimer
               /\ polls' = Append(polls, [at |-> now, path |-> nestedPath, did |-> "reject"])
        ELSE /\ timer' = [set |-> TRUE, delay |-> interval]
             /\ polls' = Append(polls, [at |-> now, path |-> nestedPath, did |-> "setTimeout"])
             /\ UNCHANGED promise
  /\ UNCHANGED <<now, maxWaitTime, interval, nestedPath, fetchVars, regVars, reqVars,
                 sinkVars, startVars, runVars, histVars>>

\* checkObject, run by the call and then by each timer. setTimeout counts the
\* delay on the clock of the event loop, Date.now() reads the wall clock: a
\* timer fires whatever Date.now() has become since it was set, also within
\* the same millisecond. The run does one of: resolve, or reject
\* with 'Timeout waiting for nested object', or setTimeout(checkObject, interval)
checkObject ==
  /\ timer.set
  /\ PollsAt(now) < MaxPollsPerTick
  /\ LET nestedObj == Reduce("object", nestedPath)
     IN IF nestedObj = "object"
          THEN /\ promise' = "resolved"
               /\ timer' = NoTimer
               /\ polls' = Append(polls, [at |-> now, path |-> nestedPath, did |-> "resolve"])
        ELSE IF now > maxWaitTime
          THEN /\ promise' = "rejected"
               /\ timer' = NoTimer
               /\ polls' = Append(polls, [at |-> now, path |-> nestedPath, did |-> "reject"])
        ELSE /\ timer' = [set |-> TRUE, delay |-> interval]
             /\ polls' = Append(polls, [at |-> now, path |-> nestedPath, did |-> "setTimeout"])
             /\ UNCHANGED promise
  /\ UNCHANGED <<now, maxWaitTime, interval, nestedPath, fetchVars, regVars, reqVars,
                 sinkVars, startVars, runVars, histVars>>

\* Date.now() advances, at any moment from start = Date.now() on: also
\* before the first checkObject reads it
Tick ==
  /\ promise # "none"
  /\ now < MaxClock
  /\ now' = now + 1
  /\ UNCHANGED <<maxWaitTime, interval, nestedPath, timer, promise, polls, fetchVars,
                 regVars, reqVars, sinkVars, startVars, runVars, histVars>>

\* the page changes the object while the wait is on
ObjectChanges(p) ==
  /\ polls # <<>>
  /\ promise = "pending"
  /\ p # nestedPath
  /\ nestedPath' = p
  /\ UNCHANGED <<now, maxWaitTime, interval, timer, promise, polls, fetchVars,
                 regVars, reqVars, sinkVars, startVars, runVars, histVars>>

\* ----------------------------------------------------------- specifications
\* a registry as create, remove and the Driver events can leave it
RegistryOf(ss) ==
  /\ sessions = ss
  /\ drivers = [id \in Identity |-> IF ss[id] = NoSession THEN 0 ELSE 1]
  /\ store = {id \in Identity : ss[id] \in {"CONNECTED", "DISCONNECTED"}}
  /\ creates = 0
  /\ lastCreate = [id |-> "none", result |-> "none"]
  /\ removed = [id \in Identity |-> "none"]
  /\ failureEvents = {}

\* the process after its start, listening, with nothing to recover
ServerUp ==
  /\ baseWebhookURL = "http://hook"
  /\ envEnableWebSocket = "undefined"
  /\ enableWebSocket = EnableWebSocketOf(envEnableWebSocket)
  /\ autoStartSessions = TRUE
  /\ recoverSessions = FALSE
  /\ pc = "running"
  /\ exitCode = "none"
  /\ listening = TRUE
  /\ restoreCalls = 1
  /\ upgradeListeners = 0
  /\ upgradeRequests = 0
  /\ handleUpgradeCalls = 0
  /\ restarts = 0
  /\ snapshot = {}
  /\ pending = {}
  /\ attempted = {}

\* fetchMessages not called
NoFetch ==
  /\ chatMsgs = <<>>
  /\ earlierMsgs = <<>>
  /\ searchOptions = NoSearchOptions
  /\ fetched = NotFetched
  /\ fetchPc = "none"
  /\ pageMsgs = <<>>
  /\ storeChanges = 0

\* waitForNestedObject not called
NoWait ==
  /\ now = 0
  /\ maxWaitTime = 0
  /\ interval = 1
  /\ nestedPath = <<>>
  /\ timer = NoTimer
  /\ promise = "none"
  /\ polls = <<>>

NoUtilCalls == NoFetch /\ NoWait

NoRequests ==
  /\ req = [r \in Req |-> IdleReq]
  /\ driverLog = <<>>
  /\ concurrency = MaxReq

\* the dispatcher before any event, configured with webhook flag and API key
NoEvents(enabled, key) ==
  /\ enableWebHook = enabled
  /\ globalApiKey = key
  /\ calls = <<>>
  /\ returned = <<>>
  /\ posts = <<>>
  /\ logs = {}
  /\ unhandled = {}

\* the configuration loaded from the environment
ConfigLoaded(env) ==
  /\ envDisabledCallbacks = env
  /\ disabledCallbacks = DisabledCallbacksOf(env)
  /\ routed = NotRouted

\* the registries the requests are served against: session A is not started
\* or is registered in any of its states, session B was never started
ServedRegistries ==
  {[id \in Identity |-> IF id = "A" THEN s ELSE NoSession] : s \in {NoSession} \cup SessionStates}

\* the API layer: requests served against the registry as it stands
Init ==
  /\ \E ss \in ServedRegistries : RegistryOf(ss)
  /\ NoRequests
  /\ NoEvents(TRUE, "secret")
  /\ ConfigLoaded(EnvUnset)
  /\ ServerUp
  /\ NoUtilCalls

Next ==
  \/ \E r \in Req, sid \in Identity : getClassInfo(r, sid)
  \/ \E r \in Req, o \in GetChatOutcomes : getClassInfoResume(r, o)
  \/ \E r \in Req, sid \in Identity, b \in SendBodies : sendMessage(r, sid, b)
  \/ \E r \in Req, o \in GetChatOutcomes : sendMessageResume(r, o)
  \/ \E r \in Req, o \in CallOutcomes : sendMessageFromUrl(r, o)
  \/ \E r \in Req, o \in CallOutcomes : sendMessageSent(r, o)

Spec == Init /\ [][Next]_vars

\* every handler of the controller, for a client that sends its next request
\* when the last one is answered; session A is connected, B was never started
InitChannel ==
  /\ RegistryOf([id \in Identity |-> IF id = "A" THEN "CONNECTED" ELSE NoSession])
  /\ req = [r \in Req |-> IdleReq]
  /\ driverLog = <<>>
  /\ concurrency = 1
  /\ NoEvents(TRUE, "secret")
  /\ ConfigLoaded(EnvUnset)
  /\ ServerUp
  /\ NoUtilCalls

NextChannel ==
  \/ Next
  \/ \E r \in Req, sid \in Identity, b \in FetchBodies : fetchMessages(r, sid, b)
  \/ \E r \in Req, o \in GetChatOutcomes : fetchMessagesResume(r, o)
  \/ \E r \in Req, o \in CallOutcomes : fetchMessagesFetched(r, o)
  \/ \E r \in Req, sid \in Identity, op \in ChannelOps : channelOp(r, sid, op)
  \/ \E r \in Req, o \in GetChatOutcomes : channelOpResume(r, o)
  \/ \E r \in Req, o \in CallOutcomes : channelOpDone(r, o)
  \/ \E r \in Req, sid \in Identity, b \in PictureBodies : setProfilePicture(r, sid, b)
  \/ \E r \in Req, o \in GetChatOutcomes : setProfilePictureResume(r, o)
  \/ \E r \in Req, o \in CallOutcomes : setProfilePictureFromUrl(r, o)
  \/ \E r \in Req, o \in CallOutcomes : setProfilePictureSet(r, o)

SpecChannel == InitChannel /\ [][NextChannel]_vars

\* the registry and the Session life cycle
InitRegistry ==
  /\ RegistryOf([id \in Identity |-> NoSession])
  /\ NoRequests
  /\ NoEvents(TRUE, "secret")
  /\ ConfigLoaded(EnvUnset)
  /\ ServerUp
  /\ NoUtilCalls

NextRegistry ==
  \/ \E id \in Identity : Create(id)
  \/ \E id \in Identity, deleteStore \in BOOLEAN : Remove(id, deleteStore)
  \/ \E id \in Identity : DriverEvent(id)
  \/ \E id \in Identity : FailedRemoved(id)
  \/ Restart
  \/ ServerListening
  \/ \E id \in Identity : RecoverSession(id)

SpecRegistry == InitRegistry /\ [][NextRegistry]_vars

\* the start of the process, for every configuration and every content of
\* the store an earlier run of the service left behind
BaseWebhookURLs == {"undefined", "", "http://hook"}

InitStartup ==
  /\ sessions = [id \in Identity |-> NoSession]
  /\ drivers = [id \in Identity |-> 0]
  /\ store \in SUBSET Identity
  /\ creates = 0
  /\ lastCreate = [id |-> "none", result |-> "none"]
  /\ removed = [id \in Identity |-> "none"]
  /\ failureEvents = {}
  /\ NoRequests
  /\ \E enabled \in BOOLEAN : NoEvents(enabled, "secret")
  /\ ConfigLoaded(EnvUnset)
  /\ baseWebhookURL \in BaseWebhookURLs
  /\ envEnableWebSocket \in EnvWebSocket
  /\ enableWebSocket = EnableWebSocketOf(envEnableWebSocket)
  /\ autoStartSessions \in BOOLEAN
  /\ recoverSessions \in BOOLEAN
  /\ pc = "check"
  /\ exitCode = "none"
  /\ listening = FALSE
  /\ restoreCalls = 0
  /\ upgradeListeners = 0
  /\ upgradeRequests = 0
  /\ handleUpgradeCalls = 0
  /\ restarts = 0
  /\ snapshot = {}
  /\ pending = {}
  /\ attempted = {}
  /\ NoUtilCalls

\* the main module runs to its end, then the event loop runs the callbacks
StartupStep == CheckWebhookURL \/ AppListen \/ OnUpgrade \/ ServerListening

NextStartup ==
  \/ CheckWebhookURL
  \/ AppListen
  \/ OnUpgrade
  \/ ServerListening
  \/ \E id \in Identity : RecoverSession(id)
  \/ UpgradeRequest

SpecStartup == InitStartup /\ [][NextStartup]_vars /\ WF_vars(StartupStep)

\* the webhook dispatcher, fed by connected sessions
InitWebhook ==
  /\ RegistryOf([id \in Identity |-> "CONNECTED"])
  /\ NoRequests
  /\ \E enabled \in BOOLEAN, key \in ApiKeys : NoEvents(enabled, key)
  /\ ConfigLoaded(EnvUnset)
  /\ ServerUp
  /\ NoUtilCalls

NextWebhook ==
  \/ EmitNext
  \/ \E p \in 1..MaxEvents : postThen(p)
  \/ \E p \in 1..MaxEvents, error \in PostFailures : postCatch(p, error)

SpecWebhook == InitWebhook /\ [][NextWebhook]_vars

\* the event-type filter, for every value of DISABLED_CALLBACKS
InitFilter ==
  /\ RegistryOf([id \in Identity |-> "CONNECTED"])
  /\ NoRequests
  /\ NoEvents(TRUE, "secret")
  /\ \E env \in EnvValues : ConfigLoaded(env)
  /\ ServerUp
  /\ NoUtilCalls

NextFilter == \E t \in EventTypes : RouteEvent(t)

SpecFilter == InitFilter /\ [][NextFilter]_vars

\* fetchMessages, for every content of the chat store, every chunk of earlier
\* messages and every searchOptions
InitFetch ==
  /\ RegistryOf([id \in Identity |-> "CONNECTED"])
  /\ NoRequests
  /\ NoEvents(TRUE, "secret")
  /\ ConfigLoaded(EnvUnset)
  /\ ServerUp
  /\ chatMsgs \in SeqsUpTo(Msgs, MaxMsgs)
  /\ earlierMsgs \in SeqsUpTo(SeqsUpTo(Msgs, MaxMsgs) \ {<<>>}, MaxChunks)
  /\ searchOptions \in SearchOptions
  /\ fetched = NotFetched
  /\ fetchPc = "awaitGetChat"
  /\ pageMsgs = <<>>
  /\ storeChanges = 0
  /\ NoWait

NextFetch ==
  \/ FetchMessagesGetChat
  \/ FetchMessagesLoadEarlier
  \/ FetchMessagesEvaluated
  \/ \E m \in Msgs : MsgArrives(m)
  \/ MsgsCleared

SpecFetch == InitFetch /\ [][NextFetch]_vars

\* waitForNestedObject(rootObj, nestedPath, maxWaitTime, interval) at the call:
\* start = Date.now(), and the first checkObject is about to run
InitWait ==
  /\ RegistryOf([id \in Identity |-> "CONNECTED"])
  /\ NoRequests
  /\ NoEvents(TRUE, "secret")
  /\ ConfigLoaded(EnvUnset)
  /\ ServerUp
  /\ NoFetch
  /\ now = 0
  /\ maxWaitTime \in 0..MaxWait
  /\ interval \in 1..MaxInterval
  /\ nestedPath \in Paths
  /\ timer = [set |-> TRUE, delay |-> 0]
  /\ promise = "pending"
  /\ polls = <<>>

NextWait ==
  \/ checkObject
  \/ Tick
  \/ \E p \in Paths : ObjectChanges(p)

\* the event loop runs a timer that is due, and time passes
SpecWait == InitWait /\ [][NextWait]_vars /\ WF_vars(checkObject) /\ WF_vars(Tick)

\* ------------------------------------------------------------------ claims
\* C1: at most one Session (and so one Driver instance) is registered under an
\* identity at any time, and a create for an identity that is registered is
\* answered AlreadyExistsError and leaves the registry as it was.
OneSessionPerIdentity ==
  /\ [](\A id \in Identity : drivers[id] = (IF Registered(id) THEN 1 ELSE 0))
  /\ [][\A id \in Identity :
          (creates' = creates + 1 /\ lastCreate'.id = id /\ Registered(id))
            => /\ lastCreate'.result = "AlreadyExistsError"
               /\ sessions' = sessions
               /\ drivers' = drivers]_vars

\* a create was refused for an identity that is still registered
DuplicateCreateRefused ==
  /\ lastCreate.result = "AlreadyExistsError"
  /\ Registered(lastCreate.id)

\* C2: the Driver calls of two operations on the same session identity are
\* never interleaved: between two Driver calls of one request the Driver
\* receives no call of another request for the same identity.
CallsOf(r) == {i \in DOMAIN driverLog : driverLog[i].req = r}

DriverCallsSerial ==
  \A i, j, k \in DOMAIN driverLog :
    (i < j /\ j < k /\ driverLog[i].req = driverLog[k].req)
      => \/ driverLog[j].req = driverLog[i].req
         \/ req[driverLog[j].req].sessionId # req[driverLog[i].req].sessionId
         \/ sessions[req[driverLog[i].req].sessionId] # "CONNECTED"

\* C3: an operation attempted on a registered Session that is not CONNECTED
\* invokes no Driver operation and is answered SessionNotReadyError with the
\* state the Session is in.
NotReadyError(state) ==
  CASE state = "STARTING"       -> "SessionNotReadyError: STARTING"
    [] state = "AUTHENTICATING" -> "SessionNotReadyError: AUTHENTICATING"
    [] state = "DISCONNECTED"   -> "SessionNotReadyError: DISCONNECTED"
    [] state = "FAILED"         -> "SessionNotReadyError: FAILED"
    [] OTHER                    -> "none"

NotConnectedRejected ==
  \A r \in Req :
    (/\ req[r].pc # "idle"
     /\ Registered(req[r].sessionId)
     /\ sessions[req[r].sessionId] # "CONNECTED")
      => /\ CallsOf(r) = {}
         /\ req[r].pc = "done"
         /\ req[r].res = <<SendErrorResponse(req[r].res[1].status,
                                             NotReadyError(sessions[req[r].sessionId]))>>

\* C4: an operation addressed to an identity with no registered Session is
\* answered with a not-found error, not with a generic server error.
UnknownSessionNotFound ==
  \A r \in Req :
    (req[r].pc # "idle" /\ ~Registered(req[r].sessionId))
      => /\ req[r].pc = "done"
         /\ Len(req[r].res) = 1
         /\ req[r].res[1].success = FALSE
         /\ req[r].res[1].status = 404
         /\ CallsOf(r) = {}

\* C5: webhook delivery is at-most-once: no call of triggerWebhook has more
\* than one POST attempted for it, and a failed POST is logged as an error
\* and never attempted again.
PostsOf(c) == {p \in DOMAIN posts : posts[p].call = c}

WebhookAtMostOnce ==
  /\ \A c \in DOMAIN calls : Cardinality(PostsOf(c)) <= 1
  /\ \A p \in DOMAIN posts :
       posts[p].state = "rejected"
         => \E l \in logs : l.level = "error" /\ l.call = posts[p].call

\* a POST failed for either reason and later events were still handed over
FailedPostDropped ==
  /\ \E p \in DOMAIN posts : posts[p].state = "rejected" /\ Len(calls) > posts[p].call
  /\ \A f \in PostFailures : \E l \in logs : l.err = f

\* C6: triggerWebhook returns at once, whatever is pending: every call has
\* returned undefined to its caller, and the next event can be handed over
\* however many POSTs are still unanswered.
WebhookNeverBlocks ==
  /\ \A c \in DOMAIN returned : returned[c] = "undefined"
  /\ Len(calls) < MaxEvents => ENABLED EmitNext

\* an event was handed over while the POST of an earlier one was pending,
\* and both are still unanswered
PostsPendingTogether ==
  \E p, q \in DOMAIN posts :
    /\ posts[p].call < posts[q].call
    /\ posts[p].state = "pending"
    /\ posts[q].state = "pending"

\* C7: the POSTs for the events of one session are initiated in the order
\* the events were handed over, whatever became of the earlier POSTs.
WebhookInEmissionOrder ==
  \A p, q \in DOMAIN posts :
    (p < q /\ calls[posts[p].call].sessionId = calls[posts[q].call].sessionId)
      => posts[p].call < posts[q].call

\* two events of one session, the POST of the first failed or is unanswered
SecondAfterUnfinishedFirst ==
  \E p, q \in DOMAIN posts :
    /\ p < q
    /\ calls[posts[p].call].sessionId = calls[posts[q].call].sessionId
    /\ posts[p].state # "fulfilled"

\* C8: a failed delivery stays in the dispatcher: the caller got undefined
\* (no exception, no promise), no rejection is left uncaught, and the step
\* in which a POST fails changes neither the registry nor any request.
WebhookFailureContained ==
  /\ [](unhandled = {} /\ \A c \in DOMAIN returned : returned[c] = "undefined")
  /\ [][(\E p \in DOMAIN posts : posts[p].state = "pending" /\ posts'[p].state = "rejected")
          => UNCHANGED <<regVars, reqVars>>]_vars

\* every POST attempted has failed and the sessions are as they were
AllPostsFailed ==
  /\ posts # <<>>
  /\ \A p \in DOMAIN posts : posts[p].state = "rejected"
  /\ \A id \in Identity : sessions[id] = "CONNECTED"

\* C9: every request handed to axios is a POST to the URL the caller gave,
\* with body {dataType, data, sessionId} holding the caller's values and the
\* configured API key in the x-api-key header.
WebhookRequestShape ==
  \A p \in DOMAIN posts :
    LET c == calls[posts[p].call]
    IN /\ posts[p].method = "POST"
       /\ posts[p].url = c.webhookURL
       /\ posts[p].body = [dataType |-> c.dataType, data |-> c.data, sessionId |-> c.sessionId]
       /\ posts[p].headers = ("x-api-key" :> globalApiKey)

\* POSTs to different URLs, one of them for an event without data
PostsToTwoURLs ==
  \E p, q \in DOMAIN posts :
    /\ posts[p].url # posts[q].url
    /\ posts[p].body.data = "undefined"
    /\ posts[q].body.data # "undefined"

\* C10: an event type is enabled exactly when it is not one of the types
\* DISABLED_CALLBACKS lists between its '|' separators (none when the
\* variable is unset or empty), and both sinks get the same decision.
SuppressedTypes ==
  LET s == envDisabledCallbacks.val
      n == Len(s)
      Delimited(i, j) ==
        /\ i <= j + 1
        /\ (IF i = 1 THEN TRUE ELSE s[i - 1] = "|")
        /\ (IF j = n THEN TRUE ELSE s[j + 1] = "|")
        /\ \A k \in i..j : s[k] # "|"
  IN IF ~envDisabledCallbacks.set \/ n = 0 THEN {}
     ELSE {SubSeq(s, ij[1], ij[2]) :
             ij \in {x \in (1..(n + 1)) \X (0..n) : Delimited(x[1], x[2])}}

EventFilterExact ==
  /\ \A t \in EventTypes : isEventEnabled(t) <=> t \notin SuppressedTypes
  /\ routed # NotRouted
       => /\ routed.webhook = (routed.type \notin SuppressedTypes)
          /\ routed.websocket = routed.webhook

\* an event of the second listed type was suppressed for both sinks
SecondListedTypeSuppressed ==
  /\ Len(disabledCallbacks) >= 2
  /\ routed.type = disabledCallbacks[2]
  /\ routed.type \in EventTypes
  /\ ~routed.webhook
  /\ ~routed.websocket

\* C11: restoreSessions runs once at startup, in the callback of app.listen
\* (when the server has started listening), exactly when the configuration
\* enables it (autoStartSessions); with it disabled restoreSessions never
\* runs, and it never runs a second time in the same process.
RestoreIffAutoStartSessions ==
  /\ restoreCalls <= 1
  /\ restoreCalls = 1 => listening
  /\ listening => (restoreCalls = 1 <=> autoStartSessions)

\* the sessions of the store were restored with recoverSessions off
RestoredWithRecoverSessionsOff ==
  /\ listening
  /\ autoStartSessions
  /\ ~recoverSessions
  /\ restoreCalls = 1
  /\ snapshot = Identity
  /\ attempted = Identity

\* C13: the failure of one recovered Session leaves the run as it is: the
\* identities still pending stay pending and can be taken up, the other
\* Sessions are untouched, every identity of the store is taken up in the
\* end, and the process keeps running.
RecoveryFailureIsolated ==
  /\ [](pc = "running")
  /\ [](snapshot = pending \cup attempted)
  /\ [](\A id \in pending : ENABLED RecoverSession(id))
  /\ [][(failureEvents' # failureEvents /\ restarts' = restarts)
          => /\ pending' = pending
             /\ \A id \in Identity :
                  sessions[id] # "FAILED" => sessions'[id] = sessions[id]]_vars

\* the recovery of B failed while A was pending, and A was recovered
OtherRecoveredAfterFailure ==
  /\ snapshot = Identity
  /\ pending = {}
  /\ \E f \in failureEvents : f.id = "B" /\ "A" \in f.pending
  /\ ~Registered("B")
  /\ "A" \in attempted
  /\ Registered("A")

\* C18: with the webhook enabled and no base webhook URL the process exits
\* with code 1 before app.listen: it never listens, restores no session and
\* installs no upgrade listener; in every other configuration it does not
\* exit and the server gets to listen.
Misconfigured == enableWebHook /\ NoBaseWebhookURL

StartupAbortsWithoutWebhookURL ==
  /\ [](Misconfigured
          => /\ pc \in {"check", "exited"}
             /\ ~listening
             /\ restoreCalls = 0
             /\ upgradeListeners = 0
             /\ handleUpgradeCalls = 0
             /\ \A id \in Identity : ~Registered(id))
  /\ [](pc = "exited" => Misconfigured /\ exitCode = 1)
  /\ [](~Misconfigured => exitCode = "none")
  /\ (Misconfigured ~> pc = "exited")
  /\ (~Misconfigured ~> listening)

\* the process exited although sessions were stored and the WebSocket enabled
ExitedBeforeListening ==
  /\ pc = "exited"
  /\ exitCode = 1
  /\ store = Identity
  /\ enableWebSocket
  /\ autoStartSessions

\* C14: no failure of the session lookup or of a Driver call leaves the
\* handler: every request in which one was raised is answered once, with
\* {success: false, error: <its message>}, and the next request is served.
FailuresAnswered ==
  \A r \in Req :
    /\ req[r].pc # "escaped"
    /\ req[r].err # "none"
         => /\ req[r].pc = "done"
            /\ Len(req[r].res) = 1
            /\ req[r].res[1].success = FALSE
            /\ req[r].res[1].key = "error"
            /\ req[r].res[1].value = req[r].err
    /\ (req[r].pc = "idle" /\ (IF r = 1 THEN TRUE ELSE req[r - 1].pc = "done"))
         => ENABLED (\E sid \in Identity : getClassInfo(r, sid))

\* a request failed in a Driver call, the next one in the session lookup,
\* and both were answered
FailedThenServed ==
  /\ req[1].failedAt = "setProfilePicture"
  /\ req[1].err \in DriverErrors
  /\ req[2].failedAt = "client.getChatById"
  /\ req[2].err = TypeErrNoClient
  /\ req[2].pc = "done"

\* C15: the error response does not depend on the message of the error the
\* Driver or the runtime raised: two requests with the same inputs that
\* failed at the same call get the same response.
ErrorResponseStable ==
  \A r1, r2 \in Req :
    (/\ req[r1].err # "none"
     /\ req[r2].err # "none"
     /\ req[r1].op = req[r2].op
     /\ req[r1].sessionId = req[r2].sessionId
     /\ req[r1].contentType = req[r2].contentType
     /\ req[r1].body = req[r2].body
     /\ req[r1].failedAt = req[r2].failedAt)
      => req[r1].res = req[r2].res

\* C19: when getChatById gives no chat the handler answers 404 'Channel not
\* Found', when it gives a chat that is not a channel it answers 400 'The
\* chat is not a channel'; either way the request made no other Driver call.
OpsOf(r) == {driverLog[i].op : i \in CallsOf(r)}

ChatChecksGuardOperation ==
  \A r \in Req :
    /\ req[r].chat = "undefined"
         => /\ req[r].pc = "done"
            /\ req[r].res = <<SendErrorResponse(404, "Channel not Found")>>
            /\ OpsOf(r) = {"getChatById"}
    /\ req[r].chat = "chat"
         => /\ req[r].pc = "done"
            /\ req[r].res = <<SendErrorResponse(400, "The chat is not a channel")>>
            /\ OpsOf(r) = {"getChatById"}

\* a mute found no chat and a sendMessage found a chat that is no channel
BothRefusals ==
  /\ req[1].op = "mute"
  /\ req[1].chat = "undefined"
  /\ req[2].op = "sendMessage"
  /\ req[2].chat = "chat"

\* C20 (as stated): a sendMessage on a channel with an unknown contentType
\* answers 400 'invalid contentType' and sends nothing; with one of the three
\* valid types it has invoked chat.sendMessage exactly once when it answers.
SendCalls(r) == Cardinality({i \in CallsOf(r) : driverLog[i].op = "sendMessage"})

SendMessageOncePerValidType ==
  \A r \in Req :
    (req[r].op = "sendMessage" /\ req[r].pc = "done" /\ req[r].chat = "channel")
      => IF req[r].contentType = "other"
           THEN /\ req[r].res = <<SendErrorResponse(400, "invalid contentType")>>
                /\ SendCalls(r) = 0
           ELSE SendCalls(r) = 1

\* C20 (amended): a sendMessage on a channel with an unknown contentType
\* answers 400 'invalid contentType' and sends nothing; with a valid type it
\* invokes chat.sendMessage at most once: exactly once for 'string', for
\* 'MessageMedia' with a content object and for 'MessageMediaFromURL' once
\* fromUrl has resolved, and not at all (answering 500) when fromUrl rejects
\* or 'MessageMedia' comes without content.
SendMessageOnceWhenMediaReady ==
  \A r \in Req :
    (req[r].op = "sendMessage" /\ req[r].chat = "channel")
      => CASE req[r].contentType = "other"
                -> /\ req[r].res = <<SendErrorResponse(400, "invalid contentType")>>
                   /\ SendCalls(r) = 0
           [] req[r].contentType = "MessageMedia" /\ req[r].body = "undefined"
                -> /\ req[r].res = <<SendErrorResponse(500, TypeErrNoContent)>>
                   /\ SendCalls(r) = 0
           [] req[r].contentType = "MessageMediaFromURL"
                -> IF req[r].pc = "awaitFromUrl" THEN SendCalls(r) = 0
                   ELSE IF req[r].failedAt = "MessageMedia.fromUrl"
                     THEN /\ req[r].res = <<SendErrorResponse(500, req[r].err)>>
                          /\ SendCalls(r) = 0
                   ELSE SendCalls(r) = 1
           [] OTHER -> SendCalls(r) = 1

\* an unknown contentType was refused and a MessageMediaFromURL was sent
RefusedTypeAndSentFromUrl ==
  /\ req[1].op = "sendMessage"
  /\ req[1].contentType = "other"
  /\ req[1].chat = "channel"
  /\ req[1].pc = "done"
  /\ req[2].contentType = "MessageMediaFromURL"
  /\ req[2].pc = "done"
  /\ req[2].res = <<ResJson("message", "messageOut")>>

\* C16: the messages fetchMessages returns are sorted from earliest to
\* latest by timestamp, whatever the searchOptions and whatever the order in
\* which the chat store and loadEarlierMsgs hand back the messages.
FetchedSorted ==
  fetched.done
    => \A i, j \in DOMAIN fetched.msgs : i < j => fetched.msgs[i].t <= fetched.msgs[j].t

\* C17: waitForNestedObject settles exactly once and always settles: it
\* resolves at the first poll at which every key of the path exists and the
\* last value is truthy, rejects at the first poll taken after more than
\* maxWaitTime at which that is not so, polls again otherwise, and schedules
\* no poll once it has settled.
PathReady(p) == \A k \in DOMAIN p : p[k] = "object"

WaitSettlesOnce ==
  /\ [](\A i \in DOMAIN polls :
          /\ polls[i].did = "resolve" <=> PathReady(polls[i].path)
          /\ polls[i].did = "reject" <=> (~PathReady(polls[i].path) /\ polls[i].at > maxWaitTime)
          /\ polls[i].did # "setTimeout" => i = Len(polls))
  /\ [](promise = "pending"
          => /\ timer.set
             /\ \A i \in DOMAIN polls : polls[i].did = "setTimeout")
  /\ [](promise # "pending"
          => /\ ~timer.set
             /\ polls # <<>>
             /\ polls[Len(polls)].did = (IF promise = "resolved" THEN "resolve" ELSE "reject"))
  /\ [][promise # "pending" => UNCHANGED <<promise, polls, timer>>]_vars
  /\ <>(promise # "pending")

\* the wait polled twice in vain and resolved at the third poll, past maxWaitTime
ResolvedAfterTimeout ==
  /\ promise = "resolved"
  /\ Len(polls) = 3
  /\ polls[3].at > maxWaitTime

\* C21: every channel handler sends exactly one response per request on
\* every path (success, chat not found, not a channel, invalid input, thrown
\* error): a request that has left its handler holds one response, a request
\* still in its handler holds none, no error leaves a handler unanswered, and
\* a response once sent is never followed by another.
OneResponsePerRequest ==
  /\ [](\A r \in Req :
          /\ req[r].pc # "escaped"
          /\ req[r].pc = "done" => Len(req[r].res) = 1
          /\ req[r].pc # "done" => req[r].res = <<>>)
  /\ [][\A r \in Req : req[r].res # <<>> => req'[r] = req[r]]_vars

\* an invalid contentType was answered 400 and a profile picture was set
InvalidInputThenPictureSet ==
  /\ req[1].op = "sendMessage"
  /\ req[1].res = <<SendErrorResponse(400, "invalid contentType")>>
  /\ req[2].op = "setProfilePicture"
  /\ req[2].res = <<ResJson("result", "result")>>

\* C22: with enableWebHook false no call of triggerWebhook initiates a POST,
\* whatever the event; with enableWebHook true every call of triggerWebhook
\* initiates exactly one POST, and no POST is initiated but by a call.
WebhookGatedByConfig ==
  /\ [](IF enableWebHook
          THEN \A c \in DOMAIN calls : Cardinality(PostsOf(c)) = 1
          ELSE posts = <<>>)
  /\ [][/\ Len(calls') = Len(calls) + 1
            => Len(posts') = Len(posts) + (IF enableWebHook THEN 1 ELSE 0)
        /\ Len(posts') # Len(posts) => Len(calls') = Len(calls) + 1]_vars

\* the webhook is disabled and events of two types were handed over in vain
EventsWithoutPosts ==
  /\ ~enableWebHook
  /\ Len(calls) >= 2
  /\ calls[1].dataType # calls[2].dataType
  /\ Len(returned) = Len(calls)
  /\ posts = <<>>

\* C23: an upgrade request is passed to handleUpgrade if and only if
\* enableWebSocket is true, and it is false when ENABLE_WEBSOCKET is not
\* set: when enabled every upgrade request is handed over once, when
\* disabled none ever is.
UpgradeIffWebSocketEnabled ==
  /\ [](envEnableWebSocket = "undefined" => ~enableWebSocket)
  /\ [](handleUpgradeCalls = IF enableWebSocket THEN upgradeRequests ELSE 0)
  /\ [][upgradeRequests' # upgradeRequests
          => handleUpgradeCalls' = handleUpgradeCalls + (IF enableWebSocket THEN 1 ELSE 0)]_vars

\* ENABLE_WEBSOCKET is not set and the listening server received upgrade
\* requests that nothing handled
UpgradesIgnoredByDefault ==
  /\ envEnableWebSocket = "undefined"
  /\ listening
  /\ upgradeRequests = 2
  /\ handleUpgradeCalls = 0

====
